---- MODULE Spec2Model ----
(***************************************************************************)
(* Stateless re-execution of one Ethereum block (sp1-reth).                *)
(*                                                                         *)
(* The guest program (program/src/main.rs) reads a witness, hydrates an    *)
(* in-memory state view from it (primitives/src/db.rs), builds and checks  *)
(* the candidate header, executes the transactions and withdrawals and     *)
(* finalizes the state root (primitives/src/processor.rs), then prints the *)
(* block hash.  The host (utils/src/db.rs) collects the ancestor headers   *)
(* the witness carries.                                                    *)
(*                                                                         *)
(* Hashes are modelled as collision-free: a hash is the tagged value it    *)
(* was computed from.  32-byte values are tagged tuples throughout.        *)
(***************************************************************************)
EXTENDS Integers, Sequences, FiniteSets, TLC

VARIABLES
    witness,              \* the SP1RethInput as main read it (never changed)
    input,                \* SP1RethInput: the witness, mutated in place
    db,                   \* Option<InMemoryDB>: <<>> or <<[accounts, block_hashes]>>
    header,               \* Option<Header>: <<>> or <<h>>
    pc,                   \* position of main
    abort_reason,         \* which panic/unwrap ended the run ("" while running)
    tx_no,                \* index of the next transaction of execute's loop
    wd_no,                \* index of the next withdrawal of execute's loop
    logs_bloom,           \* execute's local: accumulated bloom
    cumulative_gas_used,  \* execute's local
    receipts,             \* execute's local: Vec<ReceiptWithBloom>
    transact_calls,       \* log of evm.transact(): <<[tx_no, ok, gas_used, db, state], ...>>
    finalized,            \* Option: the view finalize consumed, its state trie, its trie operations
    block_hash,           \* Option<B256>: what main printed
    remote,               \* the host's RemoteDb: block_number, initial_db.block_hashes
    lookup                \* Option: the last get_account_info / get_storage_slot and its result

vars == <<witness, input, db, header, pc, abort_reason, tx_no, wd_no, logs_bloom,
          cumulative_gas_used, receipts, transact_calls, finalized,
          block_hash, remote, lookup>>

---------------------------------------------------------------------------
(* Bounds of the model. *)

MaxAncestors == 2
MaxTxs == 2
MaxWithdrawals == 2
MaxBlock == 3

(* Program constants. *)

MINIMUM_GAS_LIMIT == 5000
MAXIMUM_EXTRA_DATA_SIZE == 32
BLOCK_HASH_WINDOW == 256
GWEI_TO_WEI == 1000000000

---------------------------------------------------------------------------
(* Generic helpers. *)

EmptyMap == [k \in {} |-> 0]

None == <<>>
Some(v) == <<v>>
IsSome(o) == o # <<>>
Unwrap(o) == o[1]

Range(s) == {s[i] : i \in 1..Len(s)}

Reverse(s) == [i \in 1..Len(s) |-> s[Len(s) + 1 - i]]

RECURSIVE SeqsUpTo(_, _)
SeqsUpTo(S, n) ==
    IF n = 0 THEN {<<>>}
    ELSE LET shorter == SeqsUpTo(S, n - 1)
         IN  shorter \cup {Append(s, x) : s \in {t \in shorter : Len(t) = n - 1}, x \in S}

RECURSIVE SumSeq(_)
SumSeq(s) == IF s = <<>> THEN 0 ELSE s[1] + SumSeq(Tail(s))

\* Every order in which a hash map of key set S may be iterated.
Orderings(S) == {p \in [1..Cardinality(S) -> S] : \A x \in S : \E i \in DOMAIN p : p[i] = x}

MapInsert(m, key, v) == [k \in DOMAIN m \cup {key} |-> IF k = key THEN v ELSE m[k]]

---------------------------------------------------------------------------
(* Hashing and encoding (crate::mpt::keccak, alloy_rlp). *)

Keccak(bytes) == <<"keccak", bytes>>
Rlp(v) == <<"rlp", v>>
RlpDecode(bytes) == bytes[2]
ToBeBytes32(slot) == <<"be32", slot>>

\* B256::ZERO: the hash of nothing.
B256_ZERO == <<"keccak", <<"rlp">>>>

\* keccak of the empty byte string: the code hash of a code-less account.
KECCAK_EMPTY == Keccak(<<>>)

---------------------------------------------------------------------------
(* The Merkle-Patricia trie (crate::mpt::MptNode), as the key-value map it *)
(* authenticates; its root hash determines the map and conversely.         *)

EmptyTrie == EmptyMap
TrieHash(t) == <<"root", t>>
TrieContains(t, key) == key \in DOMAIN t
TrieGetRlp(t, key) == RlpDecode(t[key])
TrieInsertRlp(t, key, v) == [k \in DOMAIN t \cup {key} |-> IF k = key THEN Rlp(v) ELSE t[k]]
TrieDelete(t, key) == [k \in DOMAIN t \ {key} |-> t[k]]
TrieClear(t) == EmptyTrie

EMPTY_ROOT == TrieHash(EmptyTrie)

DefaultStateAccount ==
    [nonce |-> 0, balance |-> 0, storage_root |-> EMPTY_ROOT, code_hash |-> KECCAK_EMPTY]

\* reth_primitives::proofs::ordered_trie_root_with_encoder: key RLP(index).
OrderedTrieRoot(items) ==
    TrieHash([k \in {Rlp(i - 1) : i \in 1..Len(items)} |-> Rlp(items[RlpDecode(k) + 1])])

---------------------------------------------------------------------------
(* Headers. *)

DefaultHeader ==
    [parent_hash |-> B256_ZERO, beneficiary |-> "zero", state_root |-> EMPTY_ROOT,
     transactions_root |-> EMPTY_ROOT, receipts_root |-> EMPTY_ROOT,
     withdrawals_root |-> None, logs_bloom |-> {}, number |-> 0, gas_limit |-> 0,
     gas_used |-> 0, timestamp |-> 0, extra_data |-> <<>>, mix_hash |-> "zero",
     base_fee_per_gas |-> None]

\* Header::hash_slow: keccak of the header's RLP.
HashSlow(h) == Keccak(Rlp(h))

\* Header::next_block_base_fee: a function of the parent's gas fields.
NextBlockBaseFee(parent) == Some(<<"base_fee", parent.gas_limit, parent.gas_used>>)

---------------------------------------------------------------------------
(* Witness hydration: InMemoryDB::initialize (primitives/src/db.rs).       *)

\* The keys of the contracts map: the hash of each supplied bytecode.
ContractHashes(inp) == {Keccak(inp.contracts[i]) : i \in 1..Len(inp.contracts)}

\* get_rlp::<StateAccount>(keccak(address))?.unwrap_or_default()
ParentStateAccount(inp, address) ==
    IF TrieContains(inp.parent_state_trie, Keccak(address))
    THEN TrieGetRlp(inp.parent_state_trie, Keccak(address))
    ELSE DefaultStateAccount

\* Mutant: the root is compared only for an account the state trie holds.
StorageRootMatches_PresentOnly(inp, address) ==
    \/ ~TrieContains(inp.parent_state_trie, Keccak(address))
    \/ TrieHash(inp.parent_storage[address].storage_trie)
           = ParentStateAccount(inp, address).storage_root

StorageRootMatches(inp, address) ==
    TrieHash(inp.parent_storage[address].storage_trie)
        = ParentStateAccount(inp, address).storage_root

BytecodeResolves(inp, address) ==
    \/ ParentStateAccount(inp, address).code_hash = KECCAK_EMPTY
    \/ ParentStateAccount(inp, address).code_hash \in ContractHashes(inp)

ResolveBytecode(inp, address) ==
    IF ParentStateAccount(inp, address).code_hash = KECCAK_EMPTY
    THEN <<>>
    ELSE CHOOSE bytes \in Range(inp.contracts) :
             Keccak(bytes) = ParentStateAccount(inp, address).code_hash

LoadStorage(entry) ==
    [slot \in entry.slots |->
        IF TrieContains(entry.storage_trie, Keccak(ToBeBytes32(slot)))
        THEN TrieGetRlp(entry.storage_trie, Keccak(ToBeBytes32(slot)))
        ELSE 0]

LoadAccount(inp, address) ==
    [info |-> [balance |-> ParentStateAccount(inp, address).balance,
               nonce |-> ParentStateAccount(inp, address).nonce,
               code_hash |-> ParentStateAccount(inp, address).code_hash,
               code |-> Some(ResolveBytecode(inp, address))],
     account_state |-> "None",
     storage |-> LoadStorage(inp.parent_storage[address])]

\* The panics the account loop can end in; which one is met first depends
\* on the iteration order of the parent_storage hash map.
AccountFailures(inp) ==
    {"storage root mismatch" : a \in {x \in DOMAIN inp.parent_storage :
                                          ~StorageRootMatches(inp, x)}}
    \cup {"contract missing" : a \in {x \in DOMAIN inp.parent_storage :
                                          /\ StorageRootMatches(inp, x)
                                          /\ ~BytecodeResolves(inp, x)}}

ChainLinked(prev, current) == prev.parent_hash = HashSlow(current)

\* Mutant: the window test is off by one.
WithinWindow_OffByOne(parent_header, current) ==
    ~(\/ parent_header.number < current.number
      \/ parent_header.number - current.number > BLOCK_HASH_WINDOW)

WithinWindow(parent_header, current) ==
    ~(\/ parent_header.number < current.number
      \/ parent_header.number - current.number >= BLOCK_HASH_WINDOW)

\* The loop over ancestor_headers, from its i-th element on.
RECURSIVE InsertAncestors(_, _, _, _)
InsertAncestors(inp, i, prev, block_hashes) ==
    IF i > Len(inp.ancestor_headers)
    THEN [ok |-> TRUE, reason |-> "", block_hashes |-> block_hashes]
    ELSE LET current == inp.ancestor_headers[i]
         IN  IF ~ChainLinked(prev, current)
             THEN [ok |-> FALSE, reason |-> "invalid chain: not the parent",
                   block_hashes |-> block_hashes]
             ELSE IF ~WithinWindow(inp.parent_header, current)
             THEN [ok |-> FALSE, reason |-> "invalid chain: not recent",
                   block_hashes |-> block_hashes]
             ELSE InsertAncestors(inp, i + 1, current,
                      MapInsert(block_hashes, current.number, HashSlow(current)))

BlockHashes(inp) ==
    InsertAncestors(inp, 1, inp.parent_header,
        MapInsert(EmptyMap, inp.parent_header.number, HashSlow(inp.parent_header)))

InMemoryDBInitialize(inp) ==
    [accounts |-> [a \in DOMAIN inp.parent_storage |-> LoadAccount(inp, a)],
     block_hashes |-> BlockHashes(inp).block_hashes]

---------------------------------------------------------------------------
(* The state view: revm's InMemoryDB (CacheDB over an empty database), as  *)
(* the interpreter and increase_account_balance use it.                    *)

DefaultAccountInfo ==
    [balance |-> 0, nonce |-> 0, code_hash |-> KECCAK_EMPTY, code |-> Some(<<>>)]

DefaultDbAccount ==
    [info |-> DefaultAccountInfo, account_state |-> "None", storage |-> EmptyMap]

NotExistingDbAccount ==
    [info |-> DefaultAccountInfo, account_state |-> "NotExisting", storage |-> EmptyMap]

\* DbAccount::info: None for an account known not to exist.
DbAccountInfo(account) ==
    IF account.account_state = "NotExisting" THEN None ELSE Some(account.info)

\* Database::basic: a miss falls through to the empty database and is
\* cached as a not-existing account.
DbBasicResult(d, address) ==
    IF address \in DOMAIN d.accounts THEN DbAccountInfo(d.accounts[address]) ELSE None

DbBasicLoad(d, address) ==
    IF address \in DOMAIN d.accounts THEN d
    ELSE [d EXCEPT !.accounts = MapInsert(@, address, NotExistingDbAccount)]

\* accounts.entry(address).or_default()
EntryOrDefault(accounts, address) ==
    IF address \in DOMAIN accounts THEN accounts[address] ELSE DefaultDbAccount

\* DatabaseCommit::commit for one (address, account) of the change set.
CommitAccount(accounts, address, account) ==
    IF "Touched" \notin account.status THEN accounts
    ELSE IF "SelfDestructed" \in account.status
    THEN MapInsert(accounts, address, NotExistingDbAccount)
    ELSE LET old == EntryOrDefault(accounts, address)
             created == "Created" \in account.status
             kept == IF created THEN EmptyMap ELSE old.storage
         IN  MapInsert(accounts, address,
                 [info |-> account.info,
                  account_state |->
                      IF created \/ old.account_state = "StorageCleared"
                      THEN "StorageCleared" ELSE "Touched",
                  storage |-> [k \in DOMAIN kept \cup DOMAIN account.storage |->
                                  IF k \in DOMAIN account.storage
                                  THEN account.storage[k] ELSE kept[k]]])

\* Mutant: the change set is dropped.
DbCommit_Dropped(d, changes) == d

\* The change sets of this model touch one address at most, so the order
\* in which commit walks the change set does not arise.
DbCommit(d, changes) ==
    IF DOMAIN changes = {} THEN d
    ELSE LET address == CHOOSE a \in DOMAIN changes : TRUE
         IN  [d EXCEPT !.accounts = CommitAccount(@, address, changes[address])]

\* Result<T>: Ok(value), Err(message), or a panic inside the call.
Ok(v) == [kind |-> "ok", value |-> v]
Err(message) == [kind |-> "err", value |-> message]
Panic(message) == [kind |-> "panic", value |-> message]

\* InMemoryDBHelper::get_account_info
get_account_info(d, address) ==
    IF address \in DOMAIN d.accounts
    THEN Ok(DbAccountInfo(d.accounts[address]))
    ELSE Err("Account not found.")

\* Mutant: a missing slot reads as zero whatever the account's state.
get_storage_slot_ZeroDefault(d, address, index) ==
    IF address \in DOMAIN d.accounts
    THEN IF index \in DOMAIN d.accounts[address].storage
         THEN Ok(d.accounts[address].storage[index])
         ELSE Ok(0)
    ELSE Err("Account not found.")

\* InMemoryDBHelper::get_storage_slot
get_storage_slot(d, address, index) ==
    IF address \in DOMAIN d.accounts
    THEN IF index \in DOMAIN d.accounts[address].storage
         THEN Ok(d.accounts[address].storage[index])
         ELSE IF d.accounts[address].account_state = "NotExisting"
         THEN Panic("unreachable")
         ELSE IF d.accounts[address].account_state = "StorageCleared"
         THEN Ok(0)
         ELSE Err("Storage slot not found.")
    ELSE Err("Account not found.")

---------------------------------------------------------------------------
(* Header validation (EvmProcessor, primitives/src/processor.rs).          *)

ValidateHeaderStandalone(h) == ~(h.gas_used > h.gas_limit)

ValidateAgainstParent(parent_header, h) ==
    /\ ~(parent_header.number + 1 # h.number)
    /\ ~(HashSlow(parent_header) # h.parent_hash)
    /\ ~(parent_header.timestamp > h.timestamp)

ValidateGasLimit(parent_header, h) ==
    IF h.gas_limit > parent_header.gas_limit
    THEN ~(h.gas_limit - parent_header.gas_limit >= parent_header.gas_limit \div 1024)
    ELSE IF parent_header.gas_limit - h.gas_limit >= parent_header.gas_limit \div 1024
    THEN FALSE
    ELSE ~(parent_header.gas_limit < MINIMUM_GAS_LIMIT)

\* Mutant: extra data of exactly the maximum size is refused.
ValidateHeaderExtradata_Strict(h) == ~(Len(h.extra_data) >= MAXIMUM_EXTRA_DATA_SIZE)

ValidateHeaderExtradata(h) == ~(Len(h.extra_data) > MAXIMUM_EXTRA_DATA_SIZE)

\* checked_add of unsigned w-bit integers (U256, u64), for a small addend.
\* A w-bit value is written as the residue modulo 2^w nearest to zero:
\* -1 is the largest value.  None on overflow.
CheckedAdd(a, b) == IF a < 0 /\ a + b >= 0 THEN None ELSE Some(a + b)

\* parent_header.number.checked_add(1): None when the parent's number is
\* u64::MAX.
NextBlockNumber(inp) == CheckedAdd(inp.parent_header.number, 1)

\* The header initialize builds.
InitialHeader(inp) ==
    [DefaultHeader EXCEPT
        !.parent_hash = HashSlow(inp.parent_header),
        !.number = inp.parent_header.number + 1,
        !.base_fee_per_gas = NextBlockBaseFee(inp.parent_header),
        !.beneficiary = inp.beneficiary,
        !.gas_limit = inp.gas_limit,
        !.timestamp = inp.timestamp,
        !.mix_hash = inp.mix_hash,
        !.extra_data = inp.extra_data]

\* The checks initialize applies to the header it built.
InitializeChecks(inp, h) ==
    /\ ValidateAgainstParent(inp.parent_header, h)
    /\ ValidateHeaderExtradata(h)

---------------------------------------------------------------------------
(* Transaction execution: EvmProcessor::execute.                           *)

\* tx.recover_signer(): None when the signature recovers no address.
RecoverSigner(tx) == tx.signer

\* Mutant: the guard forgets the gas already used.
BlockGasAvailable_IgnoresCumulative(gas_limit, cumulative, tx) ==
    ~(gas_limit < tx.gas_limit)

\* Mutant: no guard.
BlockGasAvailable_Unguarded(gas_limit, cumulative, tx) == TRUE

\* The block-gas guard of the transaction loop.
BlockGasAvailable(gas_limit, cumulative, tx) ==
    ~(gas_limit - cumulative < tx.gas_limit)

\* Mutant: every transaction type is filled.
TxEnvFillable_Every(tx) == TRUE

\* fill_eth_tx_env: the Eip4844 arm is todo!().
TxEnvFillable(tx) == tx.tx_type \in {"Legacy", "Eip2930", "Eip1559"}

FillEthTxEnv(tx, caller) ==
    [caller |-> caller, gas_limit |-> tx.gas_limit,
     gas_priority_fee |-> IF tx.tx_type = "Eip1559" THEN Some("priority") ELSE None,
     access_list |-> tx.tx_type \in {"Eip2930", "Eip1559"}]

\* Mutant: the receipt carries the transaction's own gas.
Receipt_OwnGas(tx, res, cumulative) ==
    [tx_type |-> tx.tx_type, success |-> res.success,
     cumulative_gas_used |-> res.gas_used, logs |-> res.logs]

Receipt(tx, res, cumulative) ==
    [tx_type |-> tx.tx_type, success |-> res.success,
     cumulative_gas_used |-> cumulative, logs |-> res.logs]

\* Receipt::bloom_slow and Bloom::accrue_bloom: the bloom of a set of logs,
\* accumulated by bitwise or.
BloomSlow(receipt) == receipt.logs
AccrueBloom(bloom, other) == bloom \cup other

\* increase_account_balance: the account as read, unwrap_or_default().
WithdrawalAccountInfo(d, address) ==
    IF IsSome(DbBasicResult(d, address)) THEN Unwrap(DbBasicResult(d, address))
    ELSE DefaultAccountInfo

\* Mutant: the balance is set to the amount.
IncreaseAccountBalance_Overwrites(d, address, amount_wei) ==
    Some(DbCommit(DbBasicLoad(d, address),
             MapInsert(EmptyMap, address,
                 [info |-> [WithdrawalAccountInfo(d, address) EXCEPT !.balance = amount_wei],
                  status |-> {"Touched"}, storage |-> EmptyMap])))

\* increase_account_balance; None when checked_add(..).unwrap() panics.
IncreaseAccountBalance(d, address, amount_wei) ==
    LET info == WithdrawalAccountInfo(d, address)
        balance == CheckedAdd(info.balance, amount_wei)
    IN  IF ~IsSome(balance) THEN None
        ELSE Some(DbCommit(DbBasicLoad(d, address),
                      MapInsert(EmptyMap, address,
                          [info |-> [info EXCEPT !.balance = Unwrap(balance)],
                           status |-> {"Touched"}, storage |-> EmptyMap])))

\* Transactions and withdrawals as encoded into their ordered tries.
EncodeWithSignature(tx) == <<"tx", tx>>
EncodeInner(receipt) == <<"receipt", receipt>>
WithdrawalToRlp(withdrawal) == <<"withdrawal", withdrawal>>

EncodeAll(items, Enc(_)) == [i \in 1..Len(items) |-> Enc(items[i])]

\* The header fields execute fills once both loops are done.
FillHeader(h, inp, rcpts, bloom, cumulative) ==
    [h EXCEPT
        !.transactions_root = OrderedTrieRoot(EncodeAll(inp.transactions, EncodeWithSignature)),
        !.receipts_root = OrderedTrieRoot(EncodeAll(rcpts, EncodeInner)),
        !.withdrawals_root = Some(OrderedTrieRoot(EncodeAll(inp.withdrawals, WithdrawalToRlp))),
        !.logs_bloom = bloom,
        !.gas_used = cumulative]

---------------------------------------------------------------------------
(* Finalization: EvmProcessor::finalize.                                   *)

\* Mutant: a zero value is written like any other.
ApplySlot_WritesZero(storage_trie, key, value) ==
    TrieInsertRlp(storage_trie, Keccak(ToBeBytes32(key)), value)

\* One (key, value) of an account's storage map applied to its trie.
ApplySlot(storage_trie, key, value) ==
    LET storage_trie_index == Keccak(ToBeBytes32(key))
    IN  IF value = 0
        THEN TrieDelete(storage_trie, storage_trie_index)
        ELSE TrieInsertRlp(storage_trie, storage_trie_index, value)

\* The loop over one account's storage map; its keys are distinct.
RECURSIVE ApplyStorageChanges(_, _, _)
ApplyStorageChanges(storage_trie, state_storage, keys) ==
    IF keys = {} THEN storage_trie
    ELSE LET key == CHOOSE k \in keys : TRUE
         IN  ApplyStorageChanges(ApplySlot(storage_trie, key, state_storage[key]),
                                 state_storage, keys \ {key})

\* Mutant: the storage trie is never cleared.
UpdatedStorageTrie_NeverClears(storage_trie, account) ==
    ApplyStorageChanges(storage_trie, account.storage, DOMAIN account.storage)

\* The storage trie of a written account: cleared if the account was,
\* then the account's storage map applied.
UpdatedStorageTrie(storage_trie, account) ==
    ApplyStorageChanges(
        IF account.account_state = "StorageCleared" THEN TrieClear(storage_trie)
        ELSE storage_trie,
        account.storage, DOMAIN account.storage)

FinalStateAccount(account, storage_root) ==
    [nonce |-> account.info.nonce, balance |-> account.info.balance,
     storage_root |-> storage_root, code_hash |-> account.info.code_hash]

\* Mutant: deleting an account empties the state trie.
FinalizeDeleted_EmptiesTrie(st, address) ==
    [st EXCEPT !.state_trie = TrieClear(@),
               !.ops = @ \cup {<<"state delete", address>>}]

\* Mutant: a deleted account is skipped like an untouched one.
FinalizeDeleted_Skipped(st, address) == st

\* The arm for an account that no longer exists.
FinalizeDeleted(st, address) ==
    [st EXCEPT !.state_trie = TrieDelete(@, Keccak(address)),
               !.ops = @ \cup {<<"state delete", address>>}]

\* The arm for a touched account: its storage trie, then its state entry.
FinalizeWritten(st, address, account) ==
    IF address \notin DOMAIN st.parent_storage
    THEN [st EXCEPT !.ok = FALSE]
    ELSE LET storage_trie ==
                 UpdatedStorageTrie(st.parent_storage[address].storage_trie, account)
         IN  [st EXCEPT
                 !.parent_storage[address].storage_trie = storage_trie,
                 !.state_trie = TrieInsertRlp(@, Keccak(address),
                                    FinalStateAccount(account, TrieHash(storage_trie))),
                 !.ops = @ \cup {<<"state insert", address>>}
                           \cup {<<"storage clear", address>> :
                                    x \in {y \in {1} : account.account_state = "StorageCleared"}}
                           \cup {<<"storage write", address>> : k \in DOMAIN account.storage}]

\* Mutant: a written account without a storage trie is skipped.
FinalizeAccount_SkipsUndeclared(st, address, account) ==
    IF account.account_state = "None" THEN st
    ELSE IF account.account_state = "NotExisting" THEN FinalizeDeleted(st, address)
    ELSE IF address \notin DOMAIN st.parent_storage THEN st
    ELSE FinalizeWritten(st, address, account)

\* Mutant: an untouched account is written like a touched one.
FinalizeAccount_NoSkip(st, address, account) ==
    IF account.account_state = "NotExisting" THEN FinalizeDeleted(st, address)
    ELSE FinalizeWritten(st, address, account)

\* One iteration of the loop over db.accounts; st carries the state trie,
\* the storage tries and whether an unwrap has panicked.
FinalizeAccount(st, address, account) ==
    IF account.account_state = "None" THEN st
    ELSE IF account.account_state = "NotExisting" THEN FinalizeDeleted(st, address)
    ELSE FinalizeWritten(st, address, account)

RECURSIVE FinalizeLoop(_, _, _, _)
FinalizeLoop(st, accounts, order, i) ==
    IF i > Len(order) \/ ~st.ok THEN st
    ELSE FinalizeLoop(FinalizeAccount(st, order[i], accounts[order[i]]),
                      accounts, order, i + 1)

FinalizeResult(inp, accounts, order) ==
    FinalizeLoop([state_trie |-> inp.parent_state_trie,
                  parent_storage |-> inp.parent_storage,
                  ops |-> {}, ok |-> TRUE],
                 accounts, order, 1)

---------------------------------------------------------------------------
(* The interpreter (revm), a black box: for a filled transaction           *)
(* environment it reports an error, or success, gas used (never more than  *)
(* the transaction's gas limit), logs and a state delta.                   *)

Addr == {"a1", "a2", "a3"}

NewInfo == [balance |-> 6, nonce |-> 2, code_hash |-> KECCAK_EMPTY, code |-> Some(<<>>)]

DeltaAccounts ==
    {[info |-> NewInfo, status |-> {"Touched"}, storage |-> EmptyMap],
     [info |-> NewInfo, status |-> {"Touched"}, storage |-> MapInsert(EmptyMap, 1, 0)],
     [info |-> NewInfo, status |-> {"Touched"}, storage |-> MapInsert(EmptyMap, 1, 8)],
     [info |-> DefaultAccountInfo, status |-> {"Touched", "SelfDestructed"},
      storage |-> EmptyMap],
     [info |-> NewInfo, status |-> {"Touched", "Created"},
      storage |-> MapInsert(EmptyMap, 2, 3)],
     [info |-> NewInfo, status |-> {}, storage |-> MapInsert(EmptyMap, 1, 8)]}

StateDeltas ==
    {EmptyMap} \cup {MapInsert(EmptyMap, a, acc) : a \in Addr, acc \in DeltaAccounts}

GasUsedChoices(env) == {g \in {3000, env.gas_limit} : g <= env.gas_limit}

LogsOf(state) ==
    {<<a, "log">> : a \in {x \in DOMAIN state : DOMAIN state[x].storage # {}}}

TransactResults(env) ==
    {[ok |-> FALSE, success |-> FALSE, gas_used |-> 0, logs |-> {}, state |-> EmptyMap]}
    \cup {[ok |-> TRUE, success |-> state # EmptyMap, gas_used |-> g,
           logs |-> LogsOf(state), state |-> state] :
             g \in GasUsedChoices(env), state \in StateDeltas}

---------------------------------------------------------------------------
(* The witnesses main may read.  Each family varies one part of a valid    *)
(* base witness.                                                           *)

Code1 == <<96, 0>>

SlotKey(slot) == Keccak(ToBeBytes32(slot))

A1StorageTrie == TrieInsertRlp(TrieInsertRlp(EmptyTrie, SlotKey(1), 7), SlotKey(2), 9)
AltStorageTrie == TrieInsertRlp(EmptyTrie, SlotKey(1), 8)

A1Account(storage_root, code_hash) ==
    [nonce |-> 1, balance |-> 5, storage_root |-> storage_root, code_hash |-> code_hash]

BaseStateTrie ==
    TrieInsertRlp(EmptyTrie, Keccak("a1"), A1Account(TrieHash(A1StorageTrie), Keccak(Code1)))

BaseParentStorage ==
    [a \in {"a1", "a2"} |->
        IF a = "a1" THEN [storage_trie |-> A1StorageTrie, slots |-> {1}]
        ELSE [storage_trie |-> EmptyTrie, slots |-> {1}]]

BaseParentHeader ==
    [DefaultHeader EXCEPT !.number = 300, !.state_root = TrieHash(BaseStateTrie),
                          !.gas_limit = 10240, !.gas_used = 5000, !.timestamp = 1000]

BaseInput ==
    [parent_header |-> BaseParentHeader, beneficiary |-> "miner", gas_limit |-> 10240,
     timestamp |-> 1012, extra_data |-> <<>>, mix_hash |-> "randao",
     parent_state_trie |-> BaseStateTrie, parent_storage |-> BaseParentStorage,
     contracts |-> <<Code1>>, ancestor_headers |-> <<>>, transactions |-> <<>>,
     withdrawals |-> <<>>]

\* Storage tries, state accounts, contracts and the parent's state root.
WrongRoot(trie) == IF trie = EmptyTrie THEN TrieHash(BaseStateTrie) ELSE EMPTY_ROOT

StateTries ==
    {EmptyTrie}
    \cup {TrieInsertRlp(EmptyTrie, Keccak("a1"), A1Account(TrieHash(t), c)) :
             t \in {A1StorageTrie, EmptyTrie}, c \in {KECCAK_EMPTY, Keccak(Code1)}}

StorageFamily ==
    {[BaseInput EXCEPT
         !.parent_state_trie = st,
         !.parent_storage["a1"].storage_trie = dt,
         !.contracts = cs,
         !.parent_header.state_root = IF right THEN TrieHash(st) ELSE WrongRoot(st)] :
       st \in StateTries, dt \in {A1StorageTrie, EmptyTrie, AltStorageTrie},
       cs \in {<<>>, <<Code1>>}, right \in BOOLEAN}

\* Ancestor headers: numbers ns newest first, the link into position b
\* broken (b = -1: none), given newest-first or oldest-first.
AncestorNumbers == {44, 45, 299, 300, 301}
BadHash == HashSlow([DefaultHeader EXCEPT !.number = 999])

RECURSIVE ChainFrom(_, _, _)
ChainFrom(ns, b, i) ==
    IF i > Len(ns) THEN <<>>
    ELSE LET rest == ChainFrom(ns, b, i + 1)
         IN  <<[DefaultHeader EXCEPT
                   !.number = ns[i],
                   !.parent_hash = IF rest = <<>> THEN B256_ZERO
                                   ELSE IF b = i THEN BadHash
                                   ELSE HashSlow(rest[1])]>> \o rest

ParentOver(chain, b) ==
    [BaseParentHeader EXCEPT
        !.parent_hash = IF chain = <<>> THEN B256_ZERO
                        ELSE IF b = 0 THEN BadHash
                        ELSE HashSlow(chain[1])]

AncestorFamily ==
    {[BaseInput EXCEPT
         !.parent_header = ParentOver(ChainFrom(ns, b, 1), b),
         !.ancestor_headers = IF newest_first THEN ChainFrom(ns, b, 1)
                              ELSE Reverse(ChainFrom(ns, b, 1))] :
       ns \in SeqsUpTo(AncestorNumbers, MaxAncestors), b \in -1..(MaxAncestors - 1),
       newest_first \in BOOLEAN}

\* Gas limits, timestamps and extra data of the parent and the child.
GasLimitOffsets(p) ==
    {-(p \div 1024), 1 - (p \div 1024), 0, (p \div 1024) - 1, p \div 1024}

GasLimitPairs ==
    UNION {{<<p, p + d>> : d \in GasLimitOffsets(p)} : p \in {4096, 10240}}

HeaderFamily ==
    {[BaseInput EXCEPT
         !.parent_header.gas_limit = g[1], !.gas_limit = g[2],
         !.timestamp = ts, !.extra_data = [i \in 1..n |-> 0]] :
       g \in GasLimitPairs, ts \in {999, 1000, 1012}, n \in {0, 32, 33}}

\* The parent's number: u64::MAX (written -1) and the one before it.
NumberFamily ==
    {[BaseInput EXCEPT !.parent_header.number = k, !.timestamp = ts] :
       k \in {-1, -2}, ts \in {999, 1012}}

\* Transactions.
TxChoices ==
    {[tx_type |-> "Legacy", gas_limit |-> 5000, signer |-> Some("a1")],
     [tx_type |-> "Eip1559", gas_limit |-> 6000, signer |-> Some("a1")],
     [tx_type |-> "Eip2930", gas_limit |-> 12000, signer |-> Some("a1")],
     [tx_type |-> "Eip4844", gas_limit |-> 5000, signer |-> Some("a1")],
     [tx_type |-> "Legacy", gas_limit |-> 5000, signer |-> None]}

TxFamily ==
    {[BaseInput EXCEPT !.transactions = txs] : txs \in SeqsUpTo(TxChoices, MaxTxs)}

\* Withdrawals; the amounts of one witness sum to 2 gwei at most.  The
\* balance of a1 is small, or 10^9 or 10^9 + 1 wei below 2^256.
WithdrawalChoices ==
    {[index |-> 0, validator_index |-> 0, address |-> a, amount |-> n] :
        a \in Addr, n \in {0, 1}}

A1Balances == {5, -GWEI_TO_WEI, -GWEI_TO_WEI - 1}

StateTrieWithBalance(b) ==
    TrieInsertRlp(EmptyTrie, Keccak("a1"),
        [A1Account(TrieHash(A1StorageTrie), Keccak(Code1)) EXCEPT !.balance = b])

WithdrawalFamily ==
    {[BaseInput EXCEPT !.withdrawals = ws,
                       !.parent_state_trie = StateTrieWithBalance(b),
                       !.parent_header.state_root = TrieHash(StateTrieWithBalance(b))] :
        ws \in {x \in SeqsUpTo(WithdrawalChoices, MaxWithdrawals) :
                   SumSeq([i \in 1..Len(x) |-> x[i].amount]) <= 2},
        b \in A1Balances}

\* One transaction, then one withdrawal at most.
MixedFamily ==
    {[BaseInput EXCEPT !.transactions = <<tx>>, !.withdrawals = ws] :
        tx \in {t \in TxChoices : t.tx_type = "Legacy" /\ IsSome(t.signer)},
        ws \in SeqsUpTo(WithdrawalChoices, 1)}

Witnesses ==
    StorageFamily \cup AncestorFamily \cup HeaderFamily \cup TxFamily \cup WithdrawalFamily
        \cup MixedFamily \cup NumberFamily

---------------------------------------------------------------------------
(* The host's RemoteDb (utils/src/db.rs) and the chain its provider serves. *)

\* The header of block n at the provider: each block names its parent.
RECURSIVE ProviderHeader(_)
ProviderHeader(n) ==
    [BaseParentHeader EXCEPT
        !.number = n,
        !.parent_hash = IF n = 0 THEN B256_ZERO ELSE HashSlow(ProviderHeader(n - 1))]

Min(S) == CHOOSE x \in S : \A y \in S : x <= y

\* RemoteDb::block_hash asks initial_db first, whose miss is answered by
\* the empty database and cached under the number asked for.
RemoteDbBlockHash(r, number) ==
    IF number \in DOMAIN r.block_hashes THEN r
    ELSE [r EXCEPT !.block_hashes = MapInsert(@, number, Keccak(<<"number", number>>))]

\* Mutant: the range is not reversed.
FetchAncestorHeaders_Ascending(r) ==
    LET earliest_block == IF DOMAIN r.block_hashes = {} THEN r.block_number
                          ELSE Min(DOMAIN r.block_hashes)
    IN  [i \in 1..(r.block_number - earliest_block) |->
            ProviderHeader(earliest_block + i - 1)]

\* RemoteDb::fetch_ancestor_headers: (earliest_block..block_number).rev()
FetchAncestorHeaders(r) ==
    LET earliest_block == IF DOMAIN r.block_hashes = {} THEN r.block_number
                          ELSE Min(DOMAIN r.block_hashes)
    IN  [i \in 1..(r.block_number - earliest_block) |-> ProviderHeader(r.block_number - i)]

\* The input SP1RethInput::initialize starts from, for a parent block n.
HostInput(n) == [BaseInput EXCEPT !.parent_header = ProviderHeader(n)]

---------------------------------------------------------------------------
(* Initial states: main about to read a witness, or the host about to      *)
(* build one.                                                              *)

NoRemote == [block_number |-> 0, block_hashes |-> EmptyMap]

Init ==
    /\ db = None
    /\ header = None
    /\ abort_reason = ""
    /\ tx_no = 0
    /\ wd_no = 0
    /\ logs_bloom = {}
    /\ cumulative_gas_used = 0
    /\ receipts = <<>>
    /\ transact_calls = <<>>
    /\ finalized = None
    /\ block_hash = None
    /\ lookup = None
    /\ \/ /\ pc = "hydrate"
          /\ input \in Witnesses
          /\ witness = input
          /\ remote = NoRemote
       \/ /\ pc = "host"
          /\ \E n \in 1..MaxBlock :
                /\ remote = [block_number |-> n, block_hashes |-> EmptyMap]
                /\ input = HostInput(n)
          /\ witness = input

\* Mutant: a failed stage falls back to printing a hash.
Abort_FallsBack(reason) ==
    /\ pc' = "done"
    /\ abort_reason' = reason
    /\ block_hash' = Some(Keccak(Rlp(header)))
    /\ UNCHANGED <<witness, input, db, header, tx_no, wd_no, logs_bloom,
                   cumulative_gas_used, receipts, transact_calls, finalized,
                   remote, lookup>>

\* A panic (panic!, unwrap, expect, todo!) ends main.
Abort(reason) ==
    /\ pc' = "aborted"
    /\ abort_reason' = reason
    /\ UNCHANGED <<witness, input, db, header, tx_no, wd_no, logs_bloom,
                   cumulative_gas_used, receipts, transact_calls, finalized,
                   block_hash, remote, lookup>>

---------------------------------------------------------------------------
(* The host. *)

\* The interpreter, run by the host, asks for the hash of a recent block.
RemoteBlockHash ==
    /\ pc = "host"
    /\ \E number \in 0..remote.block_number :
          /\ remote.block_number + 1 - number <= BLOCK_HASH_WINDOW
          /\ remote' = RemoteDbBlockHash(remote, number)
    /\ UNCHANGED <<witness, input, db, header, pc, abort_reason, tx_no, wd_no,
                   logs_bloom, cumulative_gas_used, receipts, transact_calls,
                   finalized, block_hash, lookup>>

\* SP1RethInput::initialize completes the input, and main reads it.
HostBuildInput ==
    /\ pc = "host"
    /\ input' = [input EXCEPT !.ancestor_headers = FetchAncestorHeaders(remote)]
    /\ witness' = input'
    /\ pc' = "hydrate"
    /\ UNCHANGED <<db, header, abort_reason, tx_no, wd_no, logs_bloom,
                   cumulative_gas_used, receipts, transact_calls, finalized,
                   block_hash, remote, lookup>>

---------------------------------------------------------------------------
(* main (program/src/main.rs). *)

\* InMemoryDB::initialize(&mut input).unwrap()
Hydrate ==
    /\ pc = "hydrate"
    /\ IF AccountFailures(input) # {}
       THEN \E reason \in AccountFailures(input) : Abort(reason)
       ELSE IF ~BlockHashes(input).ok
       THEN Abort(BlockHashes(input).reason)
       ELSE /\ db' = Some(InMemoryDBInitialize(input))
            /\ pc' = "initialize"
            /\ UNCHANGED <<witness, input, header, abort_reason, tx_no, wd_no,
                           logs_bloom, cumulative_gas_used, receipts,
                           transact_calls, finalized, block_hash, remote, lookup>>

\* executor.initialize()
Initialize ==
    /\ pc = "initialize"
    /\ IF ~IsSome(NextBlockNumber(input))
       THEN Abort("block number overflow")
       ELSE IF ~InitializeChecks(input, InitialHeader(input))
       THEN Abort("header invalid")
       ELSE /\ header' = Some(InitialHeader(input))
            /\ pc' = "execute"
            /\ UNCHANGED <<witness, input, db, abort_reason, tx_no, wd_no,
                           logs_bloom, cumulative_gas_used, receipts,
                           transact_calls, finalized, block_hash, remote, lookup>>

\* executor.execute(): one iteration of the loop over the transactions.
ExecuteTx ==
    /\ pc = "execute"
    /\ tx_no < Len(input.transactions)
    /\ LET tx == input.transactions[tx_no + 1]
       IN  IF ~IsSome(RecoverSigner(tx))
           THEN Abort("signature unrecoverable")
           ELSE IF ~BlockGasAvailable(input.gas_limit, cumulative_gas_used, tx)
           THEN Abort("gas exceeds block limit")
           ELSE IF ~TxEnvFillable(tx)
           THEN Abort("not implemented")
           ELSE \E res \in TransactResults(FillEthTxEnv(tx, Unwrap(RecoverSigner(tx)))) :
                  /\ transact_calls' = Append(transact_calls,
                         [tx_no |-> tx_no, ok |-> res.ok, gas_used |-> res.gas_used,
                          db |-> Unwrap(db), state |-> res.state])
                  /\ IF ~res.ok
                     THEN /\ pc' = "aborted"
                          /\ abort_reason' = "interpreter error"
                          /\ UNCHANGED <<db, tx_no, logs_bloom, cumulative_gas_used,
                                         receipts>>
                     ELSE /\ cumulative_gas_used' = cumulative_gas_used + res.gas_used
                          /\ receipts' = Append(receipts,
                                 Receipt(tx, res, cumulative_gas_used + res.gas_used))
                          /\ logs_bloom' = AccrueBloom(logs_bloom,
                                 BloomSlow(Receipt(tx, res, cumulative_gas_used + res.gas_used)))
                          /\ db' = Some(DbCommit(Unwrap(db), res.state))
                          /\ tx_no' = tx_no + 1
                          /\ UNCHANGED <<pc, abort_reason>>
                  /\ UNCHANGED <<witness, input, header, wd_no, finalized,
                                 block_hash, remote, lookup>>

\* executor.execute(): one iteration of the loop over the withdrawals.
ExecuteWithdrawal ==
    /\ pc = "execute"
    /\ tx_no = Len(input.transactions)
    /\ wd_no < Len(input.withdrawals)
    /\ LET withdrawal == input.withdrawals[wd_no + 1]
           credited == IncreaseAccountBalance(Unwrap(db), withdrawal.address,
                                              GWEI_TO_WEI * withdrawal.amount)
       IN  IF ~IsSome(credited)
           THEN Abort("balance overflow")
           ELSE /\ db' = Some(Unwrap(credited))
                /\ wd_no' = wd_no + 1
                /\ UNCHANGED <<witness, input, header, pc, abort_reason, tx_no,
                               logs_bloom, cumulative_gas_used, receipts,
                               transact_calls, finalized, block_hash, remote, lookup>>

\* executor.execute(): the header roots, bloom and gas used.
ExecuteEnd ==
    /\ pc = "execute"
    /\ tx_no = Len(input.transactions)
    /\ wd_no = Len(input.withdrawals)
    /\ header' = Some(FillHeader(Unwrap(header), input, receipts, logs_bloom,
                                 cumulative_gas_used))
    /\ input' = [input EXCEPT !.transactions = <<>>]
    /\ pc' = "finalize"
    /\ UNCHANGED <<witness, db, abort_reason, tx_no, wd_no, logs_bloom,
                   cumulative_gas_used, receipts, transact_calls, finalized,
                   block_hash, remote, lookup>>

\* executor.finalize(): the accounts map is walked in some order.
Finalize ==
    /\ pc = "finalize"
    /\ \E order \in Orderings(DOMAIN Unwrap(db).accounts) :
          LET st == FinalizeResult(input, Unwrap(db).accounts, order)
          IN  IF ~st.ok
              THEN Abort("no storage trie for account")
              ELSE /\ input' = [input EXCEPT !.parent_state_trie = EmptyTrie,
                                             !.parent_storage = st.parent_storage]
                   /\ header' = Some([Unwrap(header) EXCEPT
                                         !.state_root = TrieHash(st.state_trie)])
                   /\ finalized' = Some([accounts |-> Unwrap(db).accounts,
                                         state_trie |-> st.state_trie,
                                         ops |-> st.ops])
                   /\ db' = None
                   /\ pc' = "emit"
                   /\ UNCHANGED <<witness, abort_reason, tx_no, wd_no, logs_bloom,
                                  cumulative_gas_used, receipts, transact_calls,
                                  block_hash, remote, lookup>>

\* keccak(alloy_rlp::encode(executor.header.unwrap())), printed.
EmitBlockHash ==
    /\ pc = "emit"
    /\ block_hash' = Some(Keccak(Rlp(Unwrap(header))))
    /\ pc' = "done"
    /\ UNCHANGED <<witness, input, db, header, abort_reason, tx_no, wd_no,
                   logs_bloom, cumulative_gas_used, receipts, transact_calls,
                   finalized, remote, lookup>>

Next ==
    \/ RemoteBlockHash
    \/ HostBuildInput
    \/ Hydrate
    \/ Initialize
    \/ ExecuteTx
    \/ ExecuteWithdrawal
    \/ ExecuteEnd
    \/ Finalize
    \/ EmitBlockHash

Spec == Init /\ [][Next]_vars

---------------------------------------------------------------------------
(* The lookups of the state view (InMemoryDBHelper), asked of a view       *)
(* hydrated from a witness and changed by commits.                         *)

SlotIndices == {1, 2, 3}

InitView ==
    /\ input = BaseInput
    /\ witness = input
    /\ db = Some(InMemoryDBInitialize(input))
    /\ header = None
    /\ pc = "view"
    /\ abort_reason = ""
    /\ tx_no = 0
    /\ wd_no = 0
    /\ logs_bloom = {}
    /\ cumulative_gas_used = 0
    /\ receipts = <<>>
    /\ transact_calls = <<>>
    /\ finalized = None
    /\ block_hash = None
    /\ remote = NoRemote
    /\ lookup = None

\* db.commit(changes): the view after one more transaction.
ViewCommit ==
    /\ pc = "view"
    /\ tx_no < MaxTxs
    /\ \E changes \in StateDeltas : db' = Some(DbCommit(Unwrap(db), changes))
    /\ tx_no' = tx_no + 1
    /\ lookup' = None
    /\ UNCHANGED <<witness, input, header, pc, abort_reason, wd_no, logs_bloom,
                   cumulative_gas_used, receipts, transact_calls, finalized,
                   block_hash, remote>>

ViewGetAccountInfo ==
    /\ pc = "view"
    /\ \E address \in Addr :
          lookup' = Some([op |-> "get_account_info", address |-> address, index |-> 0,
                          result |-> get_account_info(Unwrap(db), address)])
    /\ UNCHANGED <<witness, input, db, header, pc, abort_reason, tx_no, wd_no,
                   logs_bloom, cumulative_gas_used, receipts, transact_calls,
                   finalized, block_hash, remote>>

ViewGetStorageSlot ==
    /\ pc = "view"
    /\ \E address \in Addr, index \in SlotIndices :
          lookup' = Some([op |-> "get_storage_slot", address |-> address,
                          index |-> index,
                          result |-> get_storage_slot(Unwrap(db), address, index)])
    /\ UNCHANGED <<witness, input, db, header, pc, abort_reason, tx_no, wd_no,
                   logs_bloom, cumulative_gas_used, receipts, transact_calls,
                   finalized, block_hash, remote>>

NextView ==
    \/ ViewCommit
    \/ ViewGetAccountInfo
    \/ ViewGetStorageSlot

SpecView == InitView /\ [][NextView]_vars

---------------------------------------------------------------------------
(* validate_gas_limit, called on a processor whose header initialize has   *)
(* built.                                                                  *)

GasLimitParents == {1024, 4096, 4999, 5000, 10240}

GasLimitInputs ==
    UNION {{[BaseInput EXCEPT
                !.parent_header.gas_limit = p, !.gas_limit = p + d,
                !.timestamp = ts, !.extra_data = [i \in 1..n |-> 0]] :
              d \in GasLimitOffsets(p), ts \in {1000, 1012}, n \in {0, 32}} :
           p \in GasLimitParents}

InitGasLimit ==
    /\ input \in GasLimitInputs
    /\ witness = input
    /\ db = Some(InMemoryDBInitialize(input))
    /\ header = Some(InitialHeader(input))
    /\ pc = "validate_gas_limit"
    /\ abort_reason = ""
    /\ tx_no = 0
    /\ wd_no = 0
    /\ logs_bloom = {}
    /\ cumulative_gas_used = 0
    /\ receipts = <<>>
    /\ transact_calls = <<>>
    /\ finalized = None
    /\ block_hash = None
    /\ remote = NoRemote
    /\ lookup = None

\* executor.validate_gas_limit()
ValidateGasLimitCall ==
    /\ pc = "validate_gas_limit"
    /\ IF ~ValidateGasLimit(input.parent_header, Unwrap(header))
       THEN Abort("gas limit invalid")
       ELSE /\ pc' = "returned"
            /\ UNCHANGED <<witness, input, db, header, abort_reason, tx_no, wd_no,
                           logs_bloom, cumulative_gas_used, receipts,
                           transact_calls, finalized, block_hash, remote, lookup>>

NextGasLimit == ValidateGasLimitCall

SpecGasLimit == InitGasLimit /\ [][NextGasLimit]_vars

---------------------------------------------------------------------------
(* The host's RemoteDb: current_db over initial_db over the provider, as a *)
(* caller of its Database and DatabaseCommit implementations sees it.      *)

MaxCalls == 4

RemoteAddr == {"a1", "a2"}
RemoteSlots == {1, 2}

\* The chain at block_number, as the provider answers for it
\* (get_transaction_count, get_balance, get_code_at).
ProviderAccountInfo(address) ==
    IF address = "a1"
    THEN [balance |-> 5, nonce |-> 1, code_hash |-> Keccak(Code1), code |-> Some(Code1)]
    ELSE [balance |-> 7, nonce |-> 0, code_hash |-> KECCAK_EMPTY, code |-> Some(<<>>)]

\* get_storage_at
ProviderStorageAt(address, index) ==
    IF address = "a1"
    THEN (IF index = 1 THEN 4 ELSE 9)
    ELSE (IF index = 1 THEN 2 ELSE 0)

\* InMemoryDB::default()
EmptyDb == [accounts |-> EmptyMap, block_hashes |-> EmptyMap]

\* RemoteDb::new
NewRemoteDb(block_number) ==
    [block_number |-> block_number, block_hashes |-> EmptyMap,
     initial_db |-> EmptyDb, current_db |-> EmptyDb]

\* insert_account_info: accounts.entry(address).or_default().info = info
InsertAccountInfo(d, address, info) ==
    [d EXCEPT !.accounts =
        MapInsert(@, address, [EntryOrDefault(@, address) EXCEPT !.info = info])]

\* insert_account_storage, on an account the view holds.
InsertAccountStorage(d, address, index, value) ==
    [d EXCEPT !.accounts[address].storage = MapInsert(@, index, value)]

\* Database::basic for RemoteDb.  answers: the provider's requests succeed.
RemoteDbBasic(rdb, address, answers) ==
    LET current == get_account_info(rdb.current_db, address)
        initial == get_account_info(rdb.initial_db, address)
    IN  IF current.kind = "ok"
        THEN [db |-> rdb, result |-> Ok(current.value), fetched |-> {}]
        ELSE IF initial.kind = "ok"
        THEN [db |-> rdb, result |-> Ok(initial.value), fetched |-> {}]
        ELSE IF ~answers
        THEN [db |-> rdb, result |-> Err("provider"), fetched |-> {}]
        ELSE LET account_info == ProviderAccountInfo(address)
             IN  [db |-> [rdb EXCEPT !.initial_db =
                                InsertAccountInfo(@, address, account_info)],
                  result |-> Ok(Some(account_info)),
                  fetched |-> {<<"account", address>>}]

\* Database::storage for RemoteDb.  A miss in both views loads the account
\* into initial_db with initial_db.basic, whose backing database is empty.
RemoteDbStorage(rdb, address, index, answers) ==
    LET current == get_storage_slot(rdb.current_db, address, index)
        initial == get_storage_slot(rdb.initial_db, address, index)
    IN  IF current.kind = "panic"
        THEN [db |-> rdb, result |-> current, fetched |-> {}]
        ELSE IF current.kind = "ok"
        THEN [db |-> rdb, result |-> current, fetched |-> {}]
        ELSE IF initial.kind = "panic"
        THEN [db |-> rdb, result |-> initial, fetched |-> {}]
        ELSE IF initial.kind = "ok"
        THEN [db |-> rdb, result |-> initial, fetched |-> {}]
        ELSE LET loaded == DbBasicLoad(rdb.initial_db, address)
                 storage == ProviderStorageAt(address, index)
             IN  IF ~answers
                 THEN [db |-> [rdb EXCEPT !.initial_db = loaded],
                       result |-> Err("provider"), fetched |-> {}]
                 ELSE [db |-> [rdb EXCEPT !.initial_db =
                                    InsertAccountStorage(loaded, address, index, storage)],
                       result |-> Ok(storage),
                       fetched |-> {<<"slot", address, index>>}]

\* DatabaseCommit::commit for RemoteDb
RemoteDbCommit(rdb, changes) ==
    [rdb EXCEPT !.current_db = DbCommit(@, changes)]

\* The change sets the interpreter hands to commit.
RemoteChanges ==
    {MapInsert(EmptyMap, "a1",
        [info |-> NewInfo, status |-> {"Touched"}, storage |-> MapInsert(EmptyMap, 1, 8)]),
     MapInsert(EmptyMap, "a1",
        [info |-> DefaultAccountInfo, status |-> {"Touched", "SelfDestructed"},
         storage |-> EmptyMap]),
     MapInsert(EmptyMap, "a1",
        [info |-> NewInfo, status |-> {"Touched", "Created"},
         storage |-> MapInsert(EmptyMap, 2, 3)]),
     MapInsert(EmptyMap, "a2",
        [info |-> NewInfo, status |-> {"Touched"}, storage |-> EmptyMap]),
     MapInsert(EmptyMap, "a2",
        [info |-> NewInfo, status |-> {}, storage |-> MapInsert(EmptyMap, 1, 8)])}

\* The executor of the host, about to run the block on a new RemoteDb.
\* lookup is the list of the calls made on the database, with their answers.
InitRemote ==
    /\ input = HostInput(1)
    /\ witness = input
    /\ db = None
    /\ header = None
    /\ pc = "remote"
    /\ abort_reason = ""
    /\ tx_no = 0
    /\ wd_no = 0
    /\ logs_bloom = {}
    /\ cumulative_gas_used = 0
    /\ receipts = <<>>
    /\ transact_calls = <<>>
    /\ finalized = None
    /\ block_hash = None
    /\ remote = NewRemoteDb(1)
    /\ lookup = <<>>

Called(op, address, index, changes, r) ==
    [op |-> op, address |-> address, index |-> index, changes |-> changes,
     result |-> r.result, fetched |-> r.fetched]

CallBasic ==
    /\ pc = "remote"
    /\ Len(lookup) < MaxCalls
    /\ \E address \in RemoteAddr, answers \in BOOLEAN :
          LET r == RemoteDbBasic(remote, address, answers)
          IN  /\ remote' = r.db
              /\ lookup' = Append(lookup, Called("basic", address, 0, EmptyMap, r))
    /\ UNCHANGED <<witness, input, db, header, pc, abort_reason, tx_no, wd_no,
                   logs_bloom, cumulative_gas_used, receipts, transact_calls,
                   finalized, block_hash>>

\* unreachable!() inside a lookup ends the host.
CallStorage ==
    /\ pc = "remote"
    /\ Len(lookup) < MaxCalls
    /\ \E address \in RemoteAddr, index \in RemoteSlots, answers \in BOOLEAN :
          LET r == RemoteDbStorage(remote, address, index, answers)
          IN  /\ remote' = r.db
              /\ lookup' = Append(lookup, Called("storage", address, index, EmptyMap, r))
              /\ IF r.result.kind = "panic"
                 THEN pc' = "aborted" /\ abort_reason' = "unreachable"
                 ELSE UNCHANGED <<pc, abort_reason>>
    /\ UNCHANGED <<witness, input, db, header, tx_no, wd_no,
                   logs_bloom, cumulative_gas_used, receipts, transact_calls,
                   finalized, block_hash>>

CallCommit ==
    /\ pc = "remote"
    /\ Len(lookup) < MaxCalls
    /\ \E changes \in RemoteChanges :
          /\ remote' = RemoteDbCommit(remote, changes)
          /\ lookup' = Append(lookup,
                 Called("commit", "", 0, changes, [result |-> Ok(None), fetched |-> {}]))
    /\ UNCHANGED <<witness, input, db, header, pc, abort_reason, tx_no, wd_no,
                   logs_bloom, cumulative_gas_used, receipts, transact_calls,
                   finalized, block_hash>>

NextRemote ==
    \/ CallBasic
    \/ CallStorage
    \/ CallCommit

SpecRemote == InitRemote /\ [][NextRemote]_vars

---------------------------------------------------------------------------
(* Properties. *)

\* Hydration returned a state view (finalize later consumes it).
HydrationSucceeded == IsSome(db) \/ IsSome(finalized)

HydrationEnded == pc \notin {"host", "hydrate"}

\* The storage root the parent state trie records for an address.
RecordedStorageRoot(w, address) ==
    IF Keccak(address) \in DOMAIN w.parent_state_trie
    THEN w.parent_state_trie[Keccak(address)][2].storage_root
    ELSE TrieHash(EmptyTrie)

\* C1: hydration succeeds only if every address of parent_storage comes
\* with a storage trie whose root is the storage_root of its account in the
\* parent state trie (the empty root for an address the state trie lacks);
\* after a mismatch the run is aborted and holds no state view.
C1_StorageRootsVerified ==
    HydrationEnded =>
        IF \A a \in DOMAIN witness.parent_storage :
               TrieHash(witness.parent_storage[a].storage_trie)
                   = RecordedStorageRoot(witness, a)
        THEN TRUE
        ELSE pc = "aborted" /\ ~HydrationSucceeded

C1_Witness ==
    /\ HydrationSucceeded
    /\ witness.parent_storage["a1"].storage_trie # EmptyTrie
    /\ Keccak("a2") \notin DOMAIN witness.parent_state_trie

\* C2: a run over a witness with no transactions and no withdrawals that
\* completes ends with state_root = parent_header.state_root and
\* gas_used = 0.
C2_EmptyBlockKeepsParentStateRoot ==
    (pc = "done" /\ witness.transactions = <<>> /\ witness.withdrawals = <<>>) =>
        /\ Unwrap(header).state_root = witness.parent_header.state_root
        /\ Unwrap(header).gas_used = 0

\* The header before the i-th ancestor in hydration's walk.
WalkPrev(w, i) == IF i = 1 THEN w.parent_header ELSE w.ancestor_headers[i - 1]

AncestorAccepted(w, i) ==
    /\ WalkPrev(w, i).parent_hash = Keccak(Rlp(w.ancestor_headers[i]))
    /\ w.ancestor_headers[i].number <= w.parent_header.number
    /\ w.parent_header.number - w.ancestor_headers[i].number < 256

\* C3: hydration succeeds only if every ancestor header is the parent of
\* the header before it and less than 256 blocks behind the parent (and
\* not ahead of it); the keys of block_hashes then lie in
\* (parent.number - 256, parent.number] and number 256 at most.
C3_AncestorWalk ==
    /\ (HydrationEnded /\ HydrationSucceeded) =>
           \A i \in 1..Len(witness.ancestor_headers) : AncestorAccepted(witness, i)
    /\ IsSome(db) =>
           /\ \A n \in DOMAIN Unwrap(db).block_hashes :
                  /\ n > witness.parent_header.number - 256
                  /\ n <= witness.parent_header.number
           /\ Cardinality(DOMAIN Unwrap(db).block_hashes) <= 256

C3_Witness ==
    /\ IsSome(db)
    /\ Len(witness.ancestor_headers) = 2
    /\ witness.ancestor_headers[2].number = witness.parent_header.number - 255

\* C4: after a successful hydration block_hashes maps the number of every
\* ancestor header to that header's hash.
C4_BlockHashesOfAncestors ==
    IsSome(db) =>
        \A i \in 1..Len(witness.ancestor_headers) :
            /\ witness.ancestor_headers[i].number \in DOMAIN Unwrap(db).block_hashes
            /\ Unwrap(db).block_hashes[witness.ancestor_headers[i].number]
                   = Keccak(Rlp(witness.ancestor_headers[i]))

\* A hash-linked ancestor list in ascending block-number order whose last
\* element is the parent's parent.
OldestFirst(w) ==
    LET a == w.ancestor_headers
    IN  /\ Len(a) >= 2
        /\ w.parent_header.parent_hash = Keccak(Rlp(a[Len(a)]))
        /\ a[Len(a)].number < w.parent_header.number
        /\ w.parent_header.number - a[1].number < 256
        /\ \A i \in 1..(Len(a) - 1) :
               /\ a[i + 1].parent_hash = Keccak(Rlp(a[i]))
               /\ a[i].number < a[i + 1].number

\* A hash-linked ancestor list in descending block-number order whose
\* first element is the parent's parent.
NewestFirst(w) ==
    LET a == w.ancestor_headers
    IN  /\ Len(a) >= 2
        /\ w.parent_header.parent_hash = Keccak(Rlp(a[1]))
        /\ a[1].number < w.parent_header.number
        /\ w.parent_header.number - a[Len(a)].number < 256
        /\ \A i \in 1..(Len(a) - 1) :
               /\ a[i].parent_hash = Keccak(Rlp(a[i + 1]))
               /\ a[i].number > a[i + 1].number

HostBuilt == remote.block_number > 0 /\ pc # "host"

\* C5 as stated: hydration accepts an oldest-first ancestor list of two or
\* more headers, and the host builds the list oldest-first.
C5_OldestFirstAccepted ==
    /\ (HydrationEnded /\ OldestFirst(witness)) => HydrationSucceeded
    /\ (HostBuilt /\ Len(witness.ancestor_headers) >= 2) => OldestFirst(witness)

\* C5 amended: the list is newest-first.  Hydration accepts a hash-linked
\* ancestor list of two or more headers in descending block-number order
\* (the first element being the parent's parent), and the list
\* fetch_ancestor_headers builds is in that order and is accepted.
C5_NewestFirstAccepted ==
    /\ (HydrationEnded /\ NewestFirst(witness)
            /\ \A a \in DOMAIN witness.parent_storage :
                   TrieHash(witness.parent_storage[a].storage_trie)
                       = RecordedStorageRoot(witness, a))
           => HydrationSucceeded
    /\ (HostBuilt /\ Len(witness.ancestor_headers) >= 2) => NewestFirst(witness)
    /\ (HostBuilt /\ HydrationEnded) => HydrationSucceeded

C5_Witness ==
    /\ HostBuilt
    /\ IsSome(db)
    /\ Len(witness.ancestor_headers) >= 2

AbsDiff(a, b) == IF a > b THEN a - b ELSE b - a

\* C6: a run that emits a block hash has a gas limit within the bound
\* |header.gas_limit - parent.gas_limit| < parent.gas_limit / 1024.
C6_GasLimitBoundEnforced ==
    IsSome(block_hash) =>
        AbsDiff(Unwrap(header).gas_limit, witness.parent_header.gas_limit)
            < witness.parent_header.gas_limit \div 1024

\* Cumulative gas the interpreter reported for transactions 0..i-1.
RECURSIVE GasReportedBefore(_, _)
GasReportedBefore(calls, i) ==
    IF calls = <<>> THEN 0
    ELSE (IF calls[1].tx_no < i /\ calls[1].ok THEN calls[1].gas_used ELSE 0)
             + GasReportedBefore(Tail(calls), i)

TransactedIndices == {transact_calls[k].tx_no : k \in 1..Len(transact_calls)}

ExceedsAvailableGas(i) ==
    witness.transactions[i + 1].gas_limit
        > witness.gas_limit - GasReportedBefore(transact_calls, i)

\* C7: a transaction whose gas limit exceeds the block gas limit less the
\* gas used by the transactions before it is never handed to the
\* interpreter and gets no receipt; execute aborts at it, with every
\* transaction before it executed and committed, in witness order.
C7_BlockGasGuard ==
    /\ \A i \in TransactedIndices : ~ExceedsAvailableGas(i)
    /\ \A k \in 1..Len(transact_calls) : transact_calls[k].tx_no = k - 1
    /\ (/\ pc = "execute"
        /\ tx_no < Len(witness.transactions)
        /\ IsSome(witness.transactions[tx_no + 1].signer)
        /\ ExceedsAvailableGas(tx_no))
           => ~ENABLED (ExecuteTx /\ pc' # "aborted")
    /\ (pc = "aborted" /\ abort_reason = "gas exceeds block limit") =>
           /\ ExceedsAvailableGas(tx_no)
           /\ TransactedIndices = 0..(tx_no - 1)
           /\ Len(receipts) = tx_no

C7_Witness ==
    /\ pc = "aborted"
    /\ abort_reason = "gas exceeds block limit"
    /\ tx_no = 1
    /\ Len(receipts) = 1
    /\ witness.transactions[1].gas_limit + witness.transactions[2].gas_limit
           > witness.gas_limit

ExecuteEnded == pc \in {"finalize", "emit", "done"}

\* C8: after execute there is one receipt per transaction, in witness
\* order; receipt i has transaction i's type and the sum of the gas the
\* interpreter reported for transactions 0..i; header.gas_used is the last
\* receipt's cumulative gas (0 without transactions).
C8_ReceiptsAndGasUsed ==
    ExecuteEnded =>
        /\ Len(receipts) = Len(witness.transactions)
        /\ \A i \in 1..Len(receipts) :
               /\ receipts[i].tx_type = witness.transactions[i].tx_type
               /\ receipts[i].cumulative_gas_used = GasReportedBefore(transact_calls, i)
        /\ Unwrap(header).gas_used =
               IF receipts = <<>> THEN 0
               ELSE receipts[Len(receipts)].cumulative_gas_used
        /\ Unwrap(header).gas_used
               = GasReportedBefore(transact_calls, Len(witness.transactions))

C8_Witness ==
    /\ pc = "done"
    /\ Len(receipts) = 2
    /\ receipts[1].cumulative_gas_used > 0
    /\ receipts[2].cumulative_gas_used > receipts[1].cumulative_gas_used
    /\ receipts[1].tx_type # receipts[2].tx_type

C10_StateTrieAfterFinalize ==
    IsSome(finalized) =>
        \A a \in DOMAIN Unwrap(finalized).accounts :
            LET account == Unwrap(finalized).accounts[a]
                trie == Unwrap(finalized).state_trie
            IN  \/ account.account_state = "None"
                \/ /\ account.account_state = "NotExisting"
                   /\ Keccak(a) \notin DOMAIN trie
                \/ /\ account.account_state \in {"Touched", "StorageCleared"}
                   /\ Keccak(a) \in DOMAIN trie
                   /\ trie[Keccak(a)] =
                          Rlp([nonce |-> account.info.nonce,
                               balance |-> account.info.balance,
                               storage_root |->
                                   TrieHash(input.parent_storage[a].storage_trie),
                               code_hash |-> account.info.code_hash])

C10_Witness ==
    /\ IsSome(finalized)
    /\ \E a \in DOMAIN Unwrap(finalized).accounts :
           /\ Unwrap(finalized).accounts[a].account_state = "NotExisting"
           /\ Keccak(a) \in DOMAIN witness.parent_state_trie
    /\ \E a \in DOMAIN Unwrap(finalized).accounts :
           /\ Unwrap(finalized).accounts[a].account_state = "StorageCleared"
           /\ input.parent_storage[a].storage_trie # EmptyTrie

\* C11: after finalize, every slot of every account's storage map in the
\* view is reflected in that address's storage trie: a zero value has no
\* entry at keccak(slot), a non-zero value is the entry at keccak(slot).
C11_StorageTrieAfterFinalize ==
    IsSome(finalized) =>
        \A a \in DOMAIN Unwrap(finalized).accounts :
            \A slot \in DOMAIN Unwrap(finalized).accounts[a].storage :
                LET value == Unwrap(finalized).accounts[a].storage[slot]
                    k == <<"keccak", <<"be32", slot>>>>
                IN  /\ a \in DOMAIN input.parent_storage
                    /\ IF value = 0
                       THEN k \notin DOMAIN input.parent_storage[a].storage_trie
                       ELSE /\ k \in DOMAIN input.parent_storage[a].storage_trie
                            /\ input.parent_storage[a].storage_trie[k] = <<"rlp", value>>

C11_Witness ==
    /\ IsSome(finalized)
    /\ \E a \in DOMAIN Unwrap(finalized).accounts :
           \E slot \in DOMAIN Unwrap(finalized).accounts[a].storage :
               /\ Unwrap(finalized).accounts[a].account_state = "Touched"
               /\ Unwrap(finalized).accounts[a].storage[slot] = 0
               /\ <<"keccak", <<"be32", slot>>>>
                      \in DOMAIN witness.parent_storage[a].storage_trie
    /\ \E a \in DOMAIN Unwrap(finalized).accounts :
           \E slot \in DOMAIN Unwrap(finalized).accounts[a].storage :
               /\ Unwrap(finalized).accounts[a].storage[slot] # 0
               /\ <<"keccak", <<"be32", slot>>>>
                      \notin DOMAIN witness.parent_storage[a].storage_trie

AllUntouched(accounts) == \A a \in DOMAIN accounts : accounts[a].account_state = "None"

\* C12: when every account of the view is untouched, finalize performs no
\* insert, delete or clear on the state trie or on a storage trie, and
\* header.state_root is the root of the witness's parent state trie.
C12_FinalizeIdentityOnUntouched ==
    (IsSome(finalized) /\ AllUntouched(Unwrap(finalized).accounts)) =>
        /\ Unwrap(finalized).ops = {}
        /\ Unwrap(finalized).state_trie = witness.parent_state_trie
        /\ input.parent_storage = witness.parent_storage
        /\ Unwrap(header).state_root = <<"root", witness.parent_state_trie>>

C12_Witness ==
    /\ IsSome(finalized)
    /\ AllUntouched(Unwrap(finalized).accounts)
    /\ DOMAIN Unwrap(finalized).accounts = {"a1", "a2"}
    /\ witness.parent_state_trie # <<>>
    /\ Len(receipts) = 2

\* The account a withdrawal finds at an address: the view's entry, or an
\* empty account when the address is absent or known not to exist.
EmptyAccountView ==
    [balance |-> 0, nonce |-> 0, code_hash |-> <<"keccak", <<>>>>, storage |-> <<>>]

AccountView(accounts, a) ==
    IF a \in DOMAIN accounts /\ accounts[a].account_state # "NotExisting"
    THEN [balance |-> accounts[a].info.balance, nonce |-> accounts[a].info.nonce,
          code_hash |-> accounts[a].info.code_hash, storage |-> accounts[a].storage]
    ELSE EmptyAccountView

AtWithdrawal ==
    /\ pc = "execute"
    /\ tx_no = Len(witness.transactions)
    /\ wd_no < Len(witness.withdrawals)

\* A sum of a 256-bit balance (negative: counted down from 2^256) and a
\* small amount that passes 2^256 - 1.
PastU256Max(balance, amount) == balance < 0 /\ balance + amount >= 0

\* What the step taken at withdrawal number wd_no must do.
WithdrawalStep ==
    LET w == witness.withdrawals[wd_no + 1]
        old == AccountView(Unwrap(db).accounts, w.address)
        wei == w.amount * 1000000000
    IN  IF PastU256Max(old.balance, wei)
        THEN pc' = "aborted" /\ db' = db /\ wd_no' = wd_no
        ELSE /\ pc' = "execute"
             /\ wd_no' = wd_no + 1
             /\ w.address \in DOMAIN Unwrap(db').accounts
             /\ AccountView(Unwrap(db').accounts, w.address)
                    = [old EXCEPT !.balance = old.balance + wei]
             /\ Unwrap(db').accounts[w.address].account_state
                    \in {"Touched", "StorageCleared"}
             /\ \A a \in DOMAIN Unwrap(db).accounts \ {w.address} :
                    Unwrap(db').accounts[a] = Unwrap(db).accounts[a]
             /\ DOMAIN Unwrap(db').accounts = DOMAIN Unwrap(db).accounts \cup {w.address}

\* C13: each withdrawal, in witness order, adds amount * 10^9 wei to the
\* balance of its address (an absent account counting as empty, a sum past
\* 2^256 - 1 aborting the run), leaves the account touched, and keeps its
\* nonce, code hash and storage and every other account; it adds no
\* receipt and leaves cumulative gas, logs bloom and the header alone, so
\* header.gas_used is what the transactions used.
C13_WithdrawalsCredit ==
    /\ [][AtWithdrawal =>
              /\ WithdrawalStep
              /\ UNCHANGED <<receipts, cumulative_gas_used, logs_bloom, header,
                             tx_no, transact_calls>>]_vars
    /\ [](ExecuteEnded =>
              /\ Len(receipts) = Len(witness.transactions)
              /\ Unwrap(header).gas_used = cumulative_gas_used
              /\ Unwrap(header).logs_bloom = logs_bloom)

\* Two withdrawals to one address accumulate.
C13_Witness ==
    /\ pc = "execute"
    /\ wd_no = 2
    /\ receipts = <<>>
    /\ witness.withdrawals[1].address = "a3"
    /\ witness.withdrawals[2].address = "a3"
    /\ Unwrap(db).accounts["a3"].info.balance = 2000000000
    /\ Unwrap(db).accounts["a3"].account_state = "Touched"

\* A withdrawal whose sum passes 2^256 - 1 ends the run.
C13_WitnessOverflow ==
    /\ pc = "aborted"
    /\ abort_reason = "balance overflow"
    /\ wd_no = 1
    /\ witness.withdrawals[2].address = "a1"
    /\ Unwrap(db).accounts["a1"].info.balance = -1

C14_WitnessError ==
    /\ IsSome(lookup)
    /\ Unwrap(lookup).op = "get_storage_slot"
    /\ Unwrap(lookup).address = "a1"
    /\ Unwrap(lookup).index = 2
    /\ Unwrap(db).accounts["a1"].account_state = "None"
    /\ Unwrap(lookup).result.kind = "err"

\* The indices (from 0) of the witness's EIP-4844 transactions.
BlobIndices ==
    {i \in 0..(Len(witness.transactions) - 1) :
        witness.transactions[i + 1].tx_type = "Eip4844"}

\* C15: on a witness with an EIP-4844 transaction at index i the run never
\* leaves execute but by aborting: transaction i is never handed to the
\* interpreter and gets no receipt, no block hash is emitted, and once the
\* loop stands at index i its next step aborts.  The abort for the
\* unimplemented type comes after transactions 0..i-1 were executed and
\* committed and after signature recovery and the block-gas guard passed
\* for transaction i.
C15_BlobTransactionAborts ==
    \A i \in BlobIndices :
        /\ ~IsSome(block_hash)
        /\ pc \notin {"finalize", "emit", "done"}
        /\ i \notin TransactedIndices
        /\ Len(receipts) <= i
        /\ (pc = "execute" /\ tx_no = i) => ~ENABLED (ExecuteTx /\ pc' # "aborted")
        /\ (pc = "aborted" /\ abort_reason = "not implemented" /\ tx_no = i) =>
               /\ TransactedIndices = 0..(i - 1)
               /\ \A k \in 1..Len(transact_calls) : transact_calls[k].ok
               /\ Len(receipts) = i
               /\ IsSome(witness.transactions[i + 1].signer)
               /\ witness.transactions[i + 1].gas_limit
                      <= witness.gas_limit - cumulative_gas_used

C15_Witness ==
    /\ pc = "aborted"
    /\ abort_reason = "not implemented"
    /\ BlobIndices = {1}
    /\ tx_no = 1
    /\ Len(receipts) = 1
    /\ Len(transact_calls) = 1

\* The order in which main passes through its stages.
StageOrder ==
    {<<"host", "hydrate">>, <<"hydrate", "initialize">>, <<"initialize", "execute">>,
     <<"execute", "finalize">>, <<"finalize", "emit">>, <<"emit", "done">>}
    \cup {<<stage, "aborted">> : stage \in {"hydrate", "initialize", "execute", "finalize"}}

\* What the stages before the current position have left behind.
StagesCompleted ==
    /\ pc \in {"initialize", "execute", "finalize"} => IsSome(db)
    /\ pc \in {"execute", "finalize", "emit", "done"} => IsSome(header)
    /\ pc \in {"finalize", "emit", "done"} =>
           /\ IsSome(Unwrap(header).withdrawals_root)
           /\ tx_no = Len(witness.transactions)
           /\ wd_no = Len(witness.withdrawals)
    /\ pc \in {"emit", "done"} => IsSome(finalized)

\* C16: the run is fail-stop.  The stages run in the order hydration,
\* initialize, execute, finalize, and the block hash is printed only after
\* all four completed; a run in which a stage aborted takes no further
\* step and has printed no block hash.
C16_FailStop ==
    /\ [][pc' = pc \/ <<pc, pc'>> \in StageOrder]_vars
    /\ []StagesCompleted
    /\ [](IsSome(block_hash) => pc = "done")
    /\ [](pc # "done" => ~IsSome(block_hash))
    /\ [](abort_reason # "" => pc = "aborted" /\ ~IsSome(block_hash))
    /\ [](pc = "aborted" => abort_reason # "")
    /\ [][abort_reason = ""]_vars

C16_Witness ==
    /\ pc = "aborted"
    /\ abort_reason = "no storage trie for account"
    /\ IsSome(header)
    /\ IsSome(Unwrap(header).withdrawals_root)
    /\ Len(receipts) = 2
    /\ ~IsSome(block_hash)

\* What finalize computes from the witness's tries and a view, walking the
\* accounts in the given order: whether it completes, and if so the state
\* trie and the storage tries.
FinalizeOutcome(accounts, order) ==
    LET r == FinalizeResult(witness, accounts, order)
    IN  IF r.ok THEN <<TRUE, r.state_trie, r.parent_storage>> ELSE <<FALSE>>

\* C17: the result does not depend on the order in which finalize visits
\* the accounts.  For the view execute left, every order gives the same
\* outcome (the same state trie and storage tries, or an abort); the state
\* root of the header and the tries after finalize are those of every
\* order, and the block hash is the hash of that header.
C17_OrderIndependent ==
    /\ pc = "finalize" =>
           \A o1, o2 \in Orderings(DOMAIN Unwrap(db).accounts) :
               FinalizeOutcome(Unwrap(db).accounts, o1)
                   = FinalizeOutcome(Unwrap(db).accounts, o2)
    /\ IsSome(finalized) =>
           \A o \in Orderings(DOMAIN Unwrap(finalized).accounts) :
               /\ FinalizeOutcome(Unwrap(finalized).accounts, o)
                      = <<TRUE, Unwrap(finalized).state_trie, input.parent_storage>>
               /\ Unwrap(header).state_root = <<"root", Unwrap(finalized).state_trie>>
    /\ IsSome(block_hash) => block_hash = <<(<<"keccak", <<"rlp", Unwrap(header)>>>>)>>

C17_Witness ==
    /\ pc = "done"
    /\ \E a, b \in DOMAIN Unwrap(finalized).accounts :
           /\ Unwrap(finalized).accounts[a].account_state = "NotExisting"
           /\ Unwrap(finalized).accounts[b].account_state \in {"Touched", "StorageCleared"}
           /\ <<"keccak", a>> \in DOMAIN witness.parent_state_trie
           /\ <<"keccak", b>> \notin DOMAIN witness.parent_state_trie

\* C18: validate_gas_limit aborts whenever parent.gas_limit < 5000,
\* whenever an increase is of parent.gas_limit / 1024 or more, and whenever
\* a decrease is of parent.gas_limit / 1024 or more; it returns only when
\* none of the three holds.
C18_GasLimitRulesEnforced ==
    pc \in {"returned", "aborted"} =>
        LET parent_gas_limit == witness.parent_header.gas_limit
            gas_limit == Unwrap(header).gas_limit
        IN  (pc = "aborted") <=>
                \/ parent_gas_limit < 5000
                \/ /\ gas_limit > parent_gas_limit
                   /\ gas_limit - parent_gas_limit >= parent_gas_limit \div 1024
                \/ /\ gas_limit <= parent_gas_limit
                   /\ parent_gas_limit - gas_limit >= parent_gas_limit \div 1024

\* What validate_gas_limit does: the minimum is tested only when the gas
\* limit does not increase.
C18_MinimumOnlyWithoutIncrease ==
    pc \in {"returned", "aborted"} =>
        LET parent_gas_limit == witness.parent_header.gas_limit
            gas_limit == Unwrap(header).gas_limit
        IN  (pc = "aborted") <=>
                \/ gas_limit <= parent_gas_limit /\ parent_gas_limit < 5000
                \/ /\ gas_limit > parent_gas_limit
                   /\ gas_limit - parent_gas_limit >= parent_gas_limit \div 1024
                \/ /\ gas_limit <= parent_gas_limit
                   /\ parent_gas_limit - gas_limit >= parent_gas_limit \div 1024

\* initialize has run: hydration returned a view and main is past it.
InitializeEnded == HydrationSucceeded /\ pc \notin {"host", "hydrate", "initialize"}

\* C19: initialize leaves no header and aborts the run exactly when the
\* parent's number is the largest 64-bit value (written -1), the parent's
\* timestamp is later than the witness's, or the extra data is longer
\* than 32 bytes; otherwise the header it builds has parent_hash =
\* hash(parent_header), number = parent.number + 1 and the witness's
\* beneficiary, gas_limit, timestamp, mix_hash and extra_data.
C19_InitializeHeader ==
    InitializeEnded =>
        IF \/ witness.parent_header.number = -1
           \/ witness.parent_header.timestamp > witness.timestamp
           \/ Len(witness.extra_data) > 32
        THEN /\ pc = "aborted"
             /\ ~IsSome(header)
             /\ abort_reason \in {"block number overflow", "header invalid"}
        ELSE /\ IsSome(header)
             /\ abort_reason \notin {"block number overflow", "header invalid"}
             /\ Unwrap(header).parent_hash = <<"keccak", <<"rlp", witness.parent_header>>>>
             /\ Unwrap(header).number = witness.parent_header.number + 1
             /\ Unwrap(header).beneficiary = witness.beneficiary
             /\ Unwrap(header).gas_limit = witness.gas_limit
             /\ Unwrap(header).timestamp = witness.timestamp
             /\ Unwrap(header).mix_hash = witness.mix_hash
             /\ Unwrap(header).extra_data = witness.extra_data

C19_Witness ==
    /\ pc = "execute"
    /\ IsSome(header)
    /\ witness.timestamp = witness.parent_header.timestamp
    /\ Len(witness.extra_data) = 32

\* A parent numbered u64::MAX ends the run in initialize.
C19_WitnessOverflow ==
    /\ pc = "aborted"
    /\ abort_reason = "block number overflow"
    /\ witness.parent_header.timestamp <= witness.timestamp

\* The trie keys of the slots of a storage map, all or the non-zero ones.
MapKeys(storage) == {<<"keccak", <<"be32", slot>>>> : slot \in DOMAIN storage}

NonZeroKeys(storage) ==
    {<<"keccak", <<"be32", slot>>>> : slot \in {x \in DOMAIN storage : storage[x] # 0}}

\* C20: after finalize, the storage trie of a StorageCleared account holds
\* exactly the non-zero entries of the account's storage map (nothing of
\* the parent storage trie survives); the storage trie of a Touched
\* account keeps every parent entry whose slot is not in the map and gains
\* no entry outside the map; the storage trie of a NotExisting account and
\* of an untouched one is the parent's.
C20_StorageClearedFrame ==
    IsSome(finalized) =>
        \A a \in DOMAIN Unwrap(finalized).accounts :
            LET account == Unwrap(finalized).accounts[a]
                before == witness.parent_storage[a].storage_trie
                after == input.parent_storage[a].storage_trie
            IN  /\ account.account_state = "StorageCleared" =>
                       /\ DOMAIN after = NonZeroKeys(account.storage)
                       /\ \A slot \in DOMAIN account.storage :
                              account.storage[slot] # 0 =>
                                  after[<<"keccak", <<"be32", slot>>>>]
                                      = <<"rlp", account.storage[slot]>>
                /\ account.account_state = "Touched" =>
                       /\ \A k \in DOMAIN before \ MapKeys(account.storage) :
                              k \in DOMAIN after /\ after[k] = before[k]
                       /\ DOMAIN after \subseteq DOMAIN before \cup MapKeys(account.storage)
                /\ (account.account_state \in {"NotExisting", "None"}
                        /\ a \in DOMAIN witness.parent_storage) =>
                       /\ a \in DOMAIN input.parent_storage
                       /\ after = before

C20_Witness ==
    /\ IsSome(finalized)
    /\ \E a \in DOMAIN Unwrap(finalized).accounts :
           /\ Unwrap(finalized).accounts[a].account_state = "StorageCleared"
           /\ DOMAIN witness.parent_storage[a].storage_trie
                  \ MapKeys(Unwrap(finalized).accounts[a].storage) # {}
           /\ NonZeroKeys(Unwrap(finalized).accounts[a].storage) # {}

\* A touched account keeps the parent entries its map does not name, and a
\* deleted account keeps its storage trie.
C20_WitnessTouched ==
    /\ IsSome(finalized)
    /\ \E a \in DOMAIN Unwrap(finalized).accounts :
           /\ Unwrap(finalized).accounts[a].account_state = "Touched"
           /\ DOMAIN witness.parent_storage[a].storage_trie
                  \ MapKeys(Unwrap(finalized).accounts[a].storage) # {}
           /\ input.parent_storage[a].storage_trie
                  # witness.parent_storage[a].storage_trie

C20_WitnessDeleted ==
    /\ IsSome(finalized)
    /\ \E a \in DOMAIN Unwrap(finalized).accounts :
           /\ Unwrap(finalized).accounts[a].account_state = "NotExisting"
           /\ a \in DOMAIN witness.parent_storage
           /\ witness.parent_storage[a].storage_trie # <<>>

\* Call i of the log committed a change of address a.
Touches(calls, i, a) ==
    /\ calls[i].ok
    /\ a \in DOMAIN calls[i].state
    /\ "Touched" \in calls[i].state[a].status

\* A view shows the change acc committed for address a.
Reflects(view, a, acc) ==
    /\ a \in DOMAIN view.accounts
    /\ IF "SelfDestructed" \in acc.status
       THEN view.accounts[a].account_state = "NotExisting"
       ELSE /\ view.accounts[a].account_state \in {"Touched", "StorageCleared"}
            /\ view.accounts[a].info = acc.info
            /\ \A slot \in DOMAIN acc.storage :
                   /\ slot \in DOMAIN view.accounts[a].storage
                   /\ view.accounts[a].storage[slot] = acc.storage[slot]

\* A view holds, for every address, the last change committed by the
\* calls before the j-th, and the hydrated account where there is none.
ObservesEarlier(view, calls, j) ==
    \A a \in {"a1", "a2", "a3"} :
        IF \E i \in 1..(j - 1) : Touches(calls, i, a)
        THEN \A i \in 1..(j - 1) :
                 (Touches(calls, i, a) /\ \A n \in (i + 1)..(j - 1) : ~Touches(calls, n, a))
                     => Reflects(view, a, calls[i].state[a])
        ELSE IF a \in DOMAIN calls[1].db.accounts
             THEN a \in DOMAIN view.accounts /\ view.accounts[a] = calls[1].db.accounts[a]
             ELSE a \notin DOMAIN view.accounts

\* C21: execute runs the transactions in witness order, each on a view
\* holding the changes of all transactions before it; no withdrawal is
\* applied before every transaction was executed and committed; the first
\* withdrawal finds all their changes, and the withdrawals are applied one
\* by one in witness order, each to the view the one before it left.
C21_ExecuteOrder ==
    /\ [](\A k \in 1..Len(transact_calls) :
              /\ transact_calls[k].tx_no = k - 1
              /\ k < Len(transact_calls) => transact_calls[k].ok
              /\ ObservesEarlier(transact_calls[k].db, transact_calls, k))
    /\ []((pc = "execute" /\ wd_no = 0 /\ tx_no = Len(witness.transactions)
               /\ transact_calls # <<>>) =>
              ObservesEarlier(Unwrap(db), transact_calls, Len(transact_calls) + 1))
    /\ [](wd_no > 0 =>
              /\ tx_no = Len(witness.transactions)
              /\ Len(transact_calls) = Len(witness.transactions)
              /\ \A k \in 1..Len(transact_calls) : transact_calls[k].ok)
    /\ [](tx_no <= Len(transact_calls) /\ Len(transact_calls) <= tx_no + 1)
    /\ [][tx_no' # tx_no => (tx_no' = tx_no + 1 /\ wd_no = 0 /\ wd_no' = 0)]_vars
    /\ [][AtWithdrawal => WithdrawalStep]_vars

C21_Witness ==
    /\ pc = "execute"
    /\ wd_no = 1
    /\ Len(transact_calls) = 1
    /\ Touches(transact_calls, 1, "a1")
    /\ witness.withdrawals[1].address = "a1"
    /\ witness.withdrawals[1].amount = 1
    /\ Unwrap(db).accounts["a1"].info.balance
           = transact_calls[1].state["a1"].info.balance + 1000000000
    /\ Unwrap(db).accounts["a1"].info.balance # 5 + 1000000000

\* The second transaction runs on the view the first one's commit left.
C21_WitnessTransactions ==
    /\ Len(transact_calls) = 2
    /\ Touches(transact_calls, 1, "a1")
    /\ transact_calls[2].db # transact_calls[1].db
    /\ transact_calls[2].ok

\* The accounts of a view that finalize writes and the witness has no
\* storage trie for.
UndeclaredWritten(accounts) ==
    {a \in DOMAIN accounts :
        /\ accounts[a].account_state \in {"Touched", "StorageCleared"}
        /\ a \notin DOMAIN witness.parent_storage}

\* The run ended in finalize: execute had filled the header.
FinalizeAborted ==
    /\ pc = "aborted"
    /\ IsSome(header)
    /\ IsSome(Unwrap(header).withdrawals_root)

\* C22: finalize completes exactly when every account of the view tagged
\* Touched or StorageCleared has a storage trie in the witness's
\* parent_storage.  Otherwise it aborts: the header's state root is not
\* written and no block hash follows.  Untouched and NotExisting accounts
\* need no storage trie.
C22_FinalizeNeedsStorageTrie ==
    /\ pc = "finalize" =>
           IF UndeclaredWritten(Unwrap(db).accounts) # {}
           THEN ~ENABLED (Finalize /\ pc' # "aborted")
           ELSE ~ENABLED (Finalize /\ pc' = "aborted")
    /\ IsSome(finalized) => UndeclaredWritten(Unwrap(finalized).accounts) = {}
    /\ FinalizeAborted =>
           /\ UndeclaredWritten(Unwrap(db).accounts) # {}
           /\ ~IsSome(finalized)
           /\ ~IsSome(block_hash)
           /\ Unwrap(header).state_root = <<"root", <<>>>>

C22_Witness ==
    /\ FinalizeAborted
    /\ witness.transactions = <<>>
    /\ Len(witness.withdrawals) = 1
    /\ witness.withdrawals[1].address = "a3"
    /\ Unwrap(db).accounts["a3"].account_state = "Touched"

\* An account created by a transaction at an address the witness does not
\* declare ends the run the same way.
C22_WitnessCreated ==
    /\ FinalizeAborted
    /\ witness.withdrawals = <<>>
    /\ "a3" \in DOMAIN Unwrap(db).accounts
    /\ Unwrap(db).accounts["a3"].account_state = "StorageCleared"

\* A NotExisting account at an undeclared address does not stop finalize.
C22_WitnessDeleted ==
    /\ pc = "done"
    /\ "a3" \in DOMAIN Unwrap(finalized).accounts
    /\ Unwrap(finalized).accounts["a3"].account_state = "NotExisting"

\* Call n of the log committed a change of the account at address a.
Wrote(calls, n, a) ==
    /\ calls[n].op = "commit"
    /\ a \in DOMAIN calls[n].changes
    /\ "Touched" \in calls[n].changes[a].status

\* What the first n calls committed last for the account at a, if anything.
LastWrite(calls, n, a) ==
    LET ks == {k \in 1..n : Wrote(calls, k, a)}
    IN  IF ks = {} THEN None
        ELSE Some(calls[CHOOSE k \in ks : \A j \in ks : j <= k].changes[a])

\* The account a caller who made the first n calls then reads at a: what it
\* committed last, else what the chain holds at the parent block.
ExpectedBasic(calls, n, a) ==
    LET w == LastWrite(calls, n, a)
    IN  IF ~IsSome(w) THEN Some(ProviderAccountInfo(a))
        ELSE IF "SelfDestructed" \in Unwrap(w).status THEN None
        ELSE Some(Unwrap(w).info)

\* The same for a storage slot: a self-destructed or created account has
\* lost the slots it had.
RECURSIVE ExpectedSlot(_, _, _, _)
ExpectedSlot(calls, n, a, i) ==
    IF n = 0 THEN ProviderStorageAt(a, i)
    ELSE IF ~Wrote(calls, n, a) THEN ExpectedSlot(calls, n - 1, a, i)
    ELSE LET acc == calls[n].changes[a]
         IN  IF "SelfDestructed" \in acc.status THEN 0
             ELSE IF i \in DOMAIN acc.storage THEN acc.storage[i]
             ELSE IF "Created" \in acc.status THEN 0
             ELSE ExpectedSlot(calls, n - 1, a, i)

\* initial_db holds only what the provider answers at the parent block.
InitialDbFromProvider ==
    \A a \in DOMAIN remote.initial_db.accounts :
        LET acc == remote.initial_db.accounts[a]
        IN  /\ acc.account_state = "None"
            /\ acc.info = ProviderAccountInfo(a)
            /\ \A i \in DOMAIN acc.storage : acc.storage[i] = ProviderStorageAt(a, i)

\* Every read answered what the caller committed last, else the chain's
\* value, and no read ended in a panic.
ReadYourWrites ==
    \A n \in 1..Len(lookup) :
        LET c == lookup[n]
        IN  /\ c.result.kind # "panic"
            /\ (c.op = "basic" /\ c.result.kind = "ok") =>
                   c.result.value = ExpectedBasic(lookup, n - 1, c.address)
            /\ (c.op = "storage" /\ c.result.kind = "ok") =>
                   c.result.value = ExpectedSlot(lookup, n - 1, c.address, c.index)

\* Nothing is asked of the provider twice, and nothing the caller has
\* committed is asked of it.
FetchedOnce ==
    \A n \in 1..Len(lookup) :
        /\ \A m \in 1..(n - 1) : lookup[m].fetched \cap lookup[n].fetched = {}
        /\ <<"account", lookup[n].address>> \in lookup[n].fetched =>
               ~IsSome(LastWrite(lookup, n - 1, lookup[n].address))

CommitKeepsInitialDb ==
    (/\ Len(lookup') = Len(lookup) + 1
     /\ lookup'[Len(lookup')].op = "commit") =>
        /\ remote'.initial_db = remote.initial_db
        /\ remote'.current_db =
               DbCommit(remote.current_db, lookup'[Len(lookup')].changes)

\* C23: after any sequence of basic, storage and commit calls on RemoteDb,
\* commit has changed current_db only, initial_db holds only values the
\* provider answers at the parent block, every read returned the value
\* committed last or else the provider's, and nothing was fetched twice.
C23_RemoteDbLayers ==
    /\ [](pc = "remote" \/ Len(lookup) > 0 =>
             InitialDbFromProvider /\ ReadYourWrites /\ FetchedOnce)
    /\ [][CommitKeepsInitialDb]_vars

\* The order in which an interpreter that loads an account before it reads
\* or changes it calls the database: a storage read or a commit of an
\* address follows a basic call that answered for the address, and no slot
\* is read of an account that self-destructed unless it was created again.
LoadedBefore(calls, n, a) ==
    \E m \in 1..(n - 1) :
        /\ calls[m].op = "basic"
        /\ calls[m].address = a
        /\ calls[m].result.kind = "ok"

\* The account at a self-destructed in the first n calls and was not
\* created again.
RECURSIVE Wiped(_, _, _)
Wiped(calls, n, a) ==
    IF n = 0 THEN FALSE
    ELSE IF ~Wrote(calls, n, a) THEN Wiped(calls, n - 1, a)
    ELSE IF "SelfDestructed" \in calls[n].changes[a].status THEN TRUE
    ELSE IF "Created" \in calls[n].changes[a].status THEN FALSE
    ELSE Wiped(calls, n - 1, a)

LoadedFirst ==
    \A n \in 1..Len(lookup) :
        /\ lookup[n].op = "storage" =>
               /\ LoadedBefore(lookup, n, lookup[n].address)
               /\ ~Wiped(lookup, n - 1, lookup[n].address)
        /\ lookup[n].op = "commit" =>
               \A a \in DOMAIN lookup[n].changes : LoadedBefore(lookup, n, a)

\* The layers behave as C23 states for callers that load first.
C23_LayersWhenLoadedFirst ==
    /\ [](LoadedFirst => InitialDbFromProvider /\ ReadYourWrites /\ FetchedOnce)
    /\ [][CommitKeepsInitialDb]_vars

\* A caller that loads first reads back what it committed, without a fetch.
C23_WitnessLoadedFirst ==
    /\ LoadedFirst
    /\ Len(lookup) = 4
    /\ lookup[1].op = "basic" /\ lookup[1].address = "a1"
    /\ lookup[1].fetched = {<<"account", "a1">>}
    /\ lookup[2].op = "commit" /\ Wrote(lookup, 2, "a1")
    /\ lookup[3].op = "storage" /\ lookup[3].address = "a1"
    /\ lookup[3].result = Ok(8) /\ lookup[3].fetched = {}
    /\ lookup[4].op = "basic" /\ lookup[4].address = "a1"
    /\ lookup[4].result = Ok(Some(NewInfo)) /\ lookup[4].fetched = {}

====
